---- MODULE Spec2Model ----
(***************************************************************************)
(* MailSight: the route handlers of routes.py over the realtime database   *)
(* (/MailTrackData/Users/{uid}/{utm_id} and /MailTrackData/LinkHits) and   *)
(* the identity service (session cookies, revocation).                     *)
(*                                                                         *)
(* Store conventions (firebase_admin.db):                                  *)
(*   - a node is a function from its child keys to their values; a node    *)
(*     with no children does not exist and get() returns None for it;      *)
(*   - get() returns the children in key order; utm ids are numbers whose  *)
(*     order is that key order, and uuid4 draws any unused one, so the     *)
(*     store order is unrelated to the order of creation;                  *)
(*   - the "" leaf written by update({utm_id: ""}) is the empty sequence;  *)
(*     push().set(e) under it turns it into the sequence of pushed events  *)
(*     (push keys sort chronologically), so len() is Len in both cases.    *)
(*                                                                         *)
(* /apphealth and the 404 handler read and write none of this state and   *)
(* are left out.                                                           *)
(***************************************************************************)
EXTENDS Integers, Sequences, FiniteSets, TLC

VARIABLES
    users,      \* /MailTrackData/Users : uid -> (utm_id -> link record)
    linkHits,   \* /MailTrackData/LinkHits : utm_id -> "" or the pushed events
    cookie,     \* the "secure-session" cookie each client holds
    validSince, \* identity service: per user, the revocation epoch
    inflight,   \* link generations between their first and second write
    loggedOut,  \* history: the user a client last logged out, 0 after a login
    resp        \* the last response sent

vars == <<users, linkHits, cookie, validSince, inflight, loggedOut, resp>>

----------------------------------------------------------------------------
\* Bounds of the model.
MaxUsers == 2
MaxClients == 2
MaxLinks == 2
MaxHits == 2
MaxRevocations == 1
TicksPerMonth == 2
WindowMonths == 3
MaxUsec == 1
MaxNowTick == 0
MinNowUsec == 1
EpochYear == 2024

Users == 1..MaxUsers
Clients == 1..MaxClients
UtmIds == 1..MaxLinks
OverviewIds == 1..(MaxLinks + 1)

----------------------------------------------------------------------------
\* Time. A datetime is [tick, usec]: tick counts the calendar forward from
\* January of EpochYear, TicksPerMonth ticks a month; usec is the microsecond
\* field. Datetimes compare first by tick, then by usec.
WindowStart == 10 * TicksPerMonth

Times ==
    [tick : WindowStart..(WindowStart + WindowMonths * TicksPerMonth - 1),
     usec : 0..MaxUsec]

\* What dt.now() returns while the handlers of the main specification run.
NowTimes ==
    {t \in Times : t.tick <= WindowStart + MaxNowTick /\ t.usec >= MinNowUsec}

Year(d) == EpochYear + (d.tick \div (12 * TicksPerMonth))

Month(d) == ((d.tick \div TicksPerMonth) % 12) + 1

Before(a, b) == a.tick < b.tick \/ (a.tick = b.tick /\ a.usec < b.usec)

\* str(datetime): the fraction ".ffffff" is printed only when microsecond # 0.
DatetimeStr(d) ==
    [date |-> d.tick, frac |-> IF d.usec = 0 THEN <<>> ELSE <<d.usec>>]

\* dt.strptime(s, "%Y-%m-%d %H:%M:%S.%f%z"): ValueError without a fraction.
StrptimeFails(s) == s.frac = <<>>

Strptime(s) == [tick |-> s.date, usec |-> s.frac[1]]

month_names ==
    <<"", "January", "February", "March", "April", "May", "June", "July",
      "August", "September", "October", "November", "December">>

MonthName(m) == month_names[m + 1]

----------------------------------------------------------------------------
\* Store helpers.
NoNode == <<>>

Exists(node) == DOMAIN node # {}

\* ref.child(k).set(v), and ref.update({k: v}): only the child k changes.
SetChild(node, k, v) ==
    [x \in (DOMAIN node) \cup {k} |-> IF x = k THEN v ELSE node[x]]

RECURSIVE KeysInOrder(_)
KeysInOrder(S) ==
    IF S = {} THEN <<>>
    ELSE LET k == CHOOSE x \in S : \A y \in S : x <= y
         IN  <<k>> \o KeysInOrder(S \ {k})

RECURSIVE SumOver(_, _)
SumOver(f, S) ==
    IF S = {} THEN 0
    ELSE LET x == CHOOSE y \in S : TRUE IN f[x] + SumOver(f, S \ {x})

\* The HitEvents in the store.
TotalHits == SumOver([k \in DOMAIN linkHits |-> Len(linkHits[k])], DOMAIN linkHits)

\* Every utm id some write has used: uuid4 never returns one of these.
UsedIds ==
    (UNION {DOMAIN users[u] : u \in Users}) \cup (DOMAIN linkHits)
        \cup {g.utm : g \in inflight}

----------------------------------------------------------------------------
\* Identity service.
NoCookie == [kind |-> "none", uid |-> 0, iat |-> 0]
Garbage == [kind |-> "garbage", uid |-> 0, iat |-> 0]
SessionCookie(u, e) == [kind |-> "session", uid |-> u, iat |-> e]

\* check_revoked=True: the cookie was issued before the user's last revocation.
Revoked(ck, since) == ck.kind = "session" /\ ck.iat < since[ck.uid]

\* request.cookies.get("secure-session") (lines 245, 316): the cookie the
\* client holds, or any text the client chooses to send in its place.
Sent(c) == {cookie[c], Garbage}

\* The Flask session of a request. routes.py reads session["uid"] and never
\* writes it; the code that fills it is not in routes.py. It holds the uid of
\* the cookie's user exactly when the cookie is a valid, unrevoked session.
ValidSession(ck, since) == ck.kind = "session" /\ ~Revoked(ck, since)

HasSession(c) == ValidSession(cookie[c], validSince)

SessionUid(c) == cookie[c].uid

----------------------------------------------------------------------------
\* Responses.
Response(route, c, status, outcome, utm, body) ==
    [route |-> route, client |-> c, status |-> status, outcome |-> outcome,
     utm |-> utm, body |-> body]

NoHeader == <<>>

\* The request inputs of /track: the peer address, and the two headers.
RemoteAddrs == {"198.51.100.7"}
UserAgents == {NoHeader, <<"Mozilla">>}
ForwardedFor == {NoHeader, <<"203.0.113.9">>}

----------------------------------------------------------------------------
\* /tracklist, lines 96-147: the overview of a user's links.

\* Lines 96-106: the "Hits" key is set to len(link_hits[utm_id]) and left out
\* on KeyError (<<>> is "no such key"); GeneratedOn is parsed.
OverviewItem(link, k, link_hits) ==
    [MailTitle |-> link.MailTitle,
     MailAddress |-> link.MailAddress,
     GeneratedOn |-> Strptime(link.GeneratedOn),
     Hits |-> IF k \in DOMAIN link_hits THEN <<Len(link_hits[k])>> ELSE <<>>]

\* tracking_list.items() after lines 96-106, in the order get() returned them.
OverviewItems(tracking_list, link_hits) ==
    LET keys == KeysInOrder(DOMAIN tracking_list)
    IN  [i \in 1..Len(keys) |->
            <<keys[i], OverviewItem(tracking_list[keys[i]], keys[i], link_hits)>>]

\* The keys of a dict filled in the order of seq: first occurrences, in order.
RECURSIVE FirstSeen(_)
FirstSeen(seq) ==
    IF seq = <<>> THEN <<>>
    ELSE LET rest == FirstSeen(SubSeq(seq, 1, Len(seq) - 1))
             x == seq[Len(seq)]
         IN  IF \E i \in 1..Len(rest) : rest[i] = x THEN rest ELSE Append(rest, x)

\* sorted(items, key=GeneratedOn, reverse=True): stable, so equal keys keep
\* their order; x goes after every item that is not before it.
RECURSIVE SortedByGeneratedOnDesc(_)
SortedByGeneratedOnDesc(items) ==
    IF items = <<>> THEN <<>>
    ELSE LET done == SortedByGeneratedOnDesc(SubSeq(items, 1, Len(items) - 1))
             x == items[Len(items)]
             keep == {i \in 1..Len(done) :
                        ~Before(done[i][2].GeneratedOn, x[2].GeneratedOn)}
             n == IF keep = {} THEN 0
                  ELSE CHOOSE i \in keep : \A j \in keep : j <= i
         IN  SubSeq(done, 1, n) \o <<x>> \o SubSeq(done, n + 1, Len(done))

\* sorted(sorted_tracking.items(), reverse=True): the keys are years, all
\* different, so the pairs are ordered by year, largest first.
RECURSIVE SortedYearsDesc(_)
SortedYearsDesc(S) ==
    IF S = {} THEN <<>>
    ELSE LET y == CHOOSE x \in S : \A z \in S : z <= x
         IN  <<y>> \o SortedYearsDesc(S \ {y})

\* Lines 108-147. The months of a year are a defaultdict filled at line 115
\* and never sorted: they stay in the order their first link was met.
BuildOverview(items) ==
    LET yearOf(i) == Year(items[i][2].GeneratedOn)
        monthOf(i) == Month(items[i][2].GeneratedOn)
        years == SortedYearsDesc({yearOf(i) : i \in 1..Len(items)})
        InYear(y) == SelectSeq(items, LAMBDA x : Year(x[2].GeneratedOn) = y)
        months(y) ==
            LET its == InYear(y)
            IN  FirstSeen([i \in 1..Len(its) |-> Month(its[i][2].GeneratedOn)])
        group(y, m) ==
            SelectSeq(InYear(y), LAMBDA x : Month(x[2].GeneratedOn) = m)
    IN  [i \in 1..Len(years) |->
            <<years[i],
              [j \in 1..Len(months(years[i])) |->
                  <<MonthName(months(years[i])[j]),
                    SortedByGeneratedOnDesc(group(years[i], months(years[i])[j]))>>]>>]

tracklist(c) ==
    /\ UNCHANGED <<users, linkHits, cookie, validSince, inflight, loggedOut>>
    /\ IF ~HasSession(c)
       THEN \* line 89: session['uid'] raises KeyError
            resp' = Response("tracklist", c, 500, "no_session", 0, <<>>)
       ELSE LET tracking_list == users[SessionUid(c)]
                link_hits == linkHits
            IN  IF ~Exists(tracking_list)
                THEN resp' = Response("tracklist", c, 303, "no_records", 0, <<>>)
                ELSE IF ~Exists(link_hits)
                THEN \* line 98: link_hits is None, TypeError is not KeyError
                     resp' = Response("tracklist", c, 500, "no_index", 0, <<>>)
                ELSE IF \E k \in DOMAIN tracking_list :
                            StrptimeFails(tracking_list[k].GeneratedOn)
                THEN \* line 104: ValueError
                     resp' = Response("tracklist", c, 500, "bad_timestamp", 0, <<>>)
                ELSE resp' = Response("tracklist", c, 200, "overview", 0,
                         BuildOverview(OverviewItems(tracking_list, link_hits)))

----------------------------------------------------------------------------
\* / and /index/, lines 54-79. The two writes are two store operations: index
\* runs the handler up to the first write (lines 55-67), IndexWrite2 the rest
\* (lines 70-78), IndexCrash ends the request between the two.
Link(t) ==
    [MailTitle |-> "title", MailAddress |-> "address",
     GeneratedOn |-> DatetimeStr(t)]

IndexHitIndexFirst(c, formValid, k, t) ==
    /\ UNCHANGED <<users, cookie, validSince, loggedOut>>
    /\ IF ~formValid
       THEN /\ resp' = Response("index", c, 200, "form", 0, <<>>)
            /\ UNCHANGED <<linkHits, inflight>>
       ELSE IF ~HasSession(c)
       THEN /\ resp' = Response("index", c, 500, "no_session", 0, <<>>)
            /\ UNCHANGED <<linkHits, inflight>>
       ELSE /\ k \notin UsedIds
            /\ linkHits' = SetChild(linkHits, k, <<>>)
            /\ inflight' = inflight \cup {[utm |-> k, client |-> c]}
            /\ UNCHANGED resp

index(c, formValid, k, t) ==
    /\ UNCHANGED <<linkHits, cookie, validSince, loggedOut>>
    /\ IF ~formValid
       THEN /\ resp' = Response("index", c, 200, "form", 0, <<>>)
            /\ UNCHANGED <<users, inflight>>
       ELSE IF ~HasSession(c)
       THEN \* line 60: session['uid'] raises KeyError
            /\ resp' = Response("index", c, 500, "no_session", 0, <<>>)
            /\ UNCHANGED <<users, inflight>>
       ELSE /\ k \notin UsedIds
            /\ users' = [users EXCEPT
                            ![SessionUid(c)] = SetChild(@, k, Link(t))]
            /\ inflight' = inflight \cup {[utm |-> k, client |-> c]}
            /\ UNCHANGED resp

\* ref_2.update({str(utm_id): ""}), lines 70-75.
ReplaceLinkHits(node, utm_id) == [x \in {utm_id} |-> <<>>]

UpdateLinkHits(node, utm_id) == SetChild(node, utm_id, <<>>)

IndexWrite2(g) ==
    /\ g \in inflight
    /\ linkHits' = UpdateLinkHits(linkHits, g.utm)
    /\ inflight' = inflight \ {g}
    /\ resp' = Response("index", g.client, 303, "generated", g.utm, <<>>)
    /\ UNCHANGED <<users, cookie, validSince, loggedOut>>

IndexCrash(g) ==
    /\ g \in inflight
    /\ inflight' = inflight \ {g}
    /\ UNCHANGED <<users, linkHits, cookie, validSince, loggedOut, resp>>

----------------------------------------------------------------------------
\* /track, lines 168-219. arg is the utm_id query parameter: <<>> when the
\* request has none, <<0>> for the empty string, <<k>> for the text of id k.
\* ua and xff are the User-Agent and X-Forwarded-For headers (<<>>: absent).
TrackArgs == {<<>>} \cup {<<k>> : k \in 0..MaxLinks}

\* addr is request.remote_addr.
HitEvent(addr, ua, xff, t) ==
    [IP |-> IF xff # NoHeader THEN xff[1] ELSE addr,
     UserAgent |-> ua[1],
     AccessedOn |-> DatetimeStr(t)]

\* Lines 189-194 when they raise nothing: the session's user has this link.
OwnsLinkNever(c, utm_id) == FALSE

OwnsLink(c, utm_id) ==
    HasSession(c) /\ utm_id \in DOMAIN users[SessionUid(c)]

track(c, arg, addr, ua, xff, t) ==
    /\ UNCHANGED <<users, cookie, validSince, inflight, loggedOut>>
    /\ IF arg = <<>>
       THEN \* lines 170-172
            /\ resp' = Response("track", c, 400, "missing_arg", 0, <<>>)
            /\ UNCHANGED linkHits
       ELSE IF arg[1] = 0
       THEN \* lines 215-217
            /\ resp' = Response("track", c, 400, "empty_arg", 0, <<>>)
            /\ UNCHANGED linkHits
       ELSE LET utm_id == arg[1]
                all_hits == linkHits
            IN
            IF ~Exists(all_hits)
            THEN \* line 183: all_hits is None, TypeError is not KeyError
                 /\ resp' = Response("track", c, 500, "no_index", utm_id, <<>>)
                 /\ UNCHANGED linkHits
            ELSE IF utm_id \notin DOMAIN all_hits
            THEN \* lines 184-186
                 /\ resp' = Response("track", c, 400, "unknown_utm", utm_id, <<>>)
                 /\ UNCHANGED linkHits
            ELSE IF HasSession(c) /\ ~Exists(users[SessionUid(c)])
            THEN \* line 192: user_data is None, AttributeError is not KeyError
                 /\ resp' = Response("track", c, 500, "no_user_data", utm_id, <<>>)
                 /\ UNCHANGED linkHits
            ELSE IF OwnsLink(c, utm_id)
            THEN \* lines 194-195
                 /\ resp' = Response("track", c, 200, "self_view", utm_id, <<>>)
                 /\ UNCHANGED linkHits
            ELSE IF ua = NoHeader
            THEN \* line 202: request.headers["User-Agent"] is a 400 KeyError
                 /\ resp' = Response("track", c, 400, "no_user_agent", utm_id, <<>>)
                 /\ UNCHANGED linkHits
            ELSE \* lines 206-219
                 /\ TotalHits < MaxHits
                 /\ linkHits' = [linkHits EXCEPT
                        ![utm_id] = Append(@, HitEvent(addr, ua, xff, t))]
                 /\ resp' = Response("track", c, 200, "hit", utm_id, <<>>)

----------------------------------------------------------------------------
\* /tracking-data/<utm_id>, lines 226-239.
tracking_data(c, k) ==
    /\ UNCHANGED <<users, linkHits, cookie, validSince, inflight, loggedOut>>
    /\ IF ~HasSession(c)
       THEN resp' = Response("tracking_data", c, 500, "no_session", k, <<>>)
       ELSE IF k \notin DOMAIN users[SessionUid(c)]
       THEN resp' = Response("tracking_data", c, 303, "not_owned", k, <<>>)
       ELSE resp' = Response("tracking_data", c, 200, "detail", k, <<>>)

----------------------------------------------------------------------------
\* /login, lines 245-310. idp is what the sign-in request to the identity
\* service comes to:
\*   "ok"               200 with an idToken, the session cookie is minted
\*   "bad_credentials"  the service rejected the email or the password (400)
\*   "service_error"    an error response of the service itself (5xx, 429)
\*   "network_error"    requests.post raises RequestException
\*   "bad_json"         200 whose body is not JSON: json() raises ValueError
\*   "no_id_token"      200 JSON without "idToken": KeyError
\*   "mint_error"       create_session_cookie raises FirebaseError
IdpOutcomes ==
    {"ok", "bad_credentials", "service_error", "network_error", "bad_json",
     "no_id_token", "mint_error"}

\* The form, the service's answer and, when it is "ok", the user signed in.
LoginInputs ==
    {[formValid |-> FALSE, idp |-> "ok", u |-> 1]}
        \cup [formValid : {TRUE}, idp : {"ok"}, u : Users]
        \cup [formValid : {TRUE}, idp : IdpOutcomes \ {"ok"}, u : {1}]

\* A request that sends a cookie is answered at lines 247-258, whatever its
\* form: one input stands for all of them.
LoginInputsWith(sent) ==
    IF sent.kind = "none" THEN LoginInputs
    ELSE {[formValid |-> FALSE, idp |-> "ok", u |-> 1]}

login(c, sent, formValid, idp, u) ==
    /\ UNCHANGED <<users, linkHits, validSince, inflight>>
    /\ IF sent.kind = "garbage"
       THEN \* line 249: InvalidSessionCookieError is not caught
            /\ resp' = Response("login", c, 500, "invalid_cookie", 0, <<>>)
            /\ UNCHANGED <<cookie, loggedOut>>
       ELSE IF sent.kind = "session" /\ Revoked(sent, validSince)
       THEN \* lines 252-258
            /\ resp' = Response("login", c, 401, "revoked", 0, <<>>)
            /\ UNCHANGED <<cookie, loggedOut>>
       ELSE IF sent.kind = "session"
       THEN \* lines 250-251
            /\ resp' = Response("login", c, 303, "already_logged_in", 0, <<>>)
            /\ UNCHANGED <<cookie, loggedOut>>
       ELSE IF ~formValid
       THEN \* line 310
            /\ resp' = Response("login", c, 200, "form", 0, <<>>)
            /\ UNCHANGED <<cookie, loggedOut>>
       ELSE IF idp = "ok"
       THEN \* lines 278-293
            /\ cookie' = [cookie EXCEPT ![c] = SessionCookie(u, validSince[u])]
            /\ loggedOut' = [loggedOut EXCEPT ![c] = 0]
            /\ resp' = Response("login", c, 303, "logged_in", 0, <<>>)
       ELSE IF idp \in {"bad_credentials", "service_error"}
       THEN \* lines 295-297: every status other than 200
            /\ resp' = Response("login", c, 303, "invalid_credentials", 0, <<>>)
            /\ UNCHANGED <<cookie, loggedOut>>
       ELSE IF idp = "no_id_token"
       THEN \* line 281: KeyError is not in the except clause
            /\ resp' = Response("login", c, 500, "key_error", 0, <<>>)
            /\ UNCHANGED <<cookie, loggedOut>>
       ELSE \* lines 299-308
            /\ resp' = Response("login", c, 503, "unavailable", 0, <<>>)
            /\ UNCHANGED <<cookie, loggedOut>>

----------------------------------------------------------------------------
\* /logout, lines 316-328.
Revocations == SumOver(validSince, Users)

\* auth.revoke_refresh_tokens(uid), line 319: every cookie issued to uid so
\* far is older than the new epoch.
RevokeNothing(since, uid) == since

RevokeRefreshTokens(since, uid) == [since EXCEPT ![uid] = @ + 1]

LogoutRedirectOnly(c, sent) ==
    /\ UNCHANGED <<users, linkHits, inflight, cookie, validSince>>
    /\ IF sent.kind = "none"
       THEN /\ resp' = Response("logout", c, 500, "no_cookie", 0, <<>>)
            /\ UNCHANGED loggedOut
       ELSE IF sent.kind = "garbage"
       THEN /\ resp' = Response("logout", c, 303, "invalid_cookie", 0, <<>>)
            /\ UNCHANGED loggedOut
       ELSE /\ loggedOut' = [loggedOut EXCEPT ![c] = sent.uid]
            /\ resp' = Response("logout", c, 303, "logged_out", 0, <<>>)

logout(c, sent) ==
    /\ UNCHANGED <<users, linkHits, inflight>>
    /\ IF sent.kind = "none"
       THEN \* line 318: verify_session_cookie(None) raises ValueError
            /\ resp' = Response("logout", c, 500, "no_cookie", 0, <<>>)
            /\ UNCHANGED <<cookie, validSince, loggedOut>>
       ELSE IF sent.kind = "garbage"
       THEN \* lines 322-324
            /\ resp' = Response("logout", c, 303, "invalid_cookie", 0, <<>>)
            /\ UNCHANGED <<cookie, validSince, loggedOut>>
       ELSE \* lines 318-321, 326-328: revocation is not checked at line 318
            /\ Revocations < MaxRevocations
            /\ validSince' = RevokeRefreshTokens(validSince, sent.uid)
            /\ cookie' = [cookie EXCEPT ![c] = NoCookie]
            /\ loggedOut' = [loggedOut EXCEPT ![c] = sent.uid]
            /\ resp' = Response("logout", c, 303, "logged_out", 0, <<>>)

----------------------------------------------------------------------------
NoResponse == Response("none", 0, 0, "none", 0, <<>>)

Init ==
    /\ users = [u \in Users |-> NoNode]
    /\ linkHits = NoNode
    /\ cookie = [c \in Clients |-> NoCookie]
    /\ validSince = [u \in Users |-> 0]
    /\ inflight = {}
    /\ loggedOut = [c \in Clients |-> 0]
    /\ resp = NoResponse

Next ==
    \/ \E c \in Clients, formValid \in BOOLEAN, k \in UtmIds, t \in NowTimes :
            index(c, formValid, k, t)
    \/ \E g \in inflight : IndexWrite2(g)
    \/ \E g \in inflight : IndexCrash(g)
    \/ \E c \in Clients : tracklist(c)
    \/ \E c \in Clients, arg \in TrackArgs, addr \in RemoteAddrs,
          ua \in UserAgents, xff \in ForwardedFor, t \in NowTimes :
            track(c, arg, addr, ua, xff, t)
    \/ \E c \in Clients, k \in UtmIds : tracking_data(c, k)
    \/ \E c \in Clients : \E sent \in Sent(c) : \E in \in LoginInputsWith(sent) :
            login(c, sent, in.formValid, in.idp, in.u)
    \/ \E c \in Clients : \E sent \in Sent(c) : logout(c, sent)

Spec == Init /\ [][Next]_vars

----------------------------------------------------------------------------
\* The overview alone: the store holds any set of links of user 1, created at
\* any times of the window and all with their placeholder in the hit index;
\* client 1 is signed in as user 1.
OverviewLinks ==
    UNION {[S -> {Link(t) : t \in Times}] : S \in SUBSET OverviewIds}

InitOverview ==
    /\ \E links \in OverviewLinks :
         /\ users = [u \in Users |-> IF u = 1 THEN links ELSE NoNode]
         /\ linkHits = [k \in DOMAIN links |-> <<>>]
    /\ cookie = [c \in Clients |-> IF c = 1 THEN SessionCookie(1, 0) ELSE NoCookie]
    /\ validSince = [u \in Users |-> 0]
    /\ inflight = {}
    /\ loggedOut = [c \in Clients |-> 0]
    /\ resp = NoResponse

NextOverview == \E c \in Clients : tracklist(c)

SpecOverview == InitOverview /\ [][NextOverview]_vars

----------------------------------------------------------------------------
\* Reading an overview: body is a sequence of <<year, months>>, months a
\* sequence of <<month name, items>>, items a sequence of <<utm_id, item>>.
MonthNumber(name) == CHOOSE m \in 1..12 : MonthName(m) = name

DistinctGeneratedOn(node) ==
    \A a, b \in DOMAIN node : a # b => node[a].GeneratedOn # node[b].GeneratedOn

YearsDescending(body) ==
    \A i \in 1..(Len(body) - 1) : body[i][1] > body[i + 1][1]

MonthsDescending(body) ==
    \A i \in 1..Len(body) :
        \A j \in 1..(Len(body[i][2]) - 1) :
            MonthNumber(body[i][2][j][1]) > MonthNumber(body[i][2][j + 1][1])

ItemsDescending(body) ==
    \A i \in 1..Len(body) :
        \A j \in 1..Len(body[i][2]) :
            LET items == body[i][2][j][2]
            IN  \A l \in 1..(Len(items) - 1) :
                    Before(items[l + 1][2].GeneratedOn, items[l][2].GeneratedOn)

\* The places of the overview that hold the link k.
PlacesOf(body, k) ==
    {p \in UNION {UNION {{<<i, j, l>> : l \in 1..Len(body[i][2][j][2])} :
                            j \in 1..Len(body[i][2])} : i \in 1..Len(body)} :
        body[p[1]][2][p[2]][2][p[3]][1] = k}

\* The requests a /track step may carry.
TrackInputs ==
    [addr : RemoteAddrs, ua : UserAgents, xff : ForwardedFor, t : NowTimes]

IsPrefix(a, b) == Len(a) <= Len(b) /\ SubSeq(b, 1, Len(a)) = a

\* The step appends exactly one HitEvent under k and touches no other hit list.
OneHitAppended(k) ==
    /\ DOMAIN linkHits' = DOMAIN linkHits
    /\ Len(linkHits'[k]) = Len(linkHits[k]) + 1
    /\ IsPrefix(linkHits[k], linkHits'[k])
    /\ \A j \in DOMAIN linkHits \ {k} : linkHits'[j] = linkHits[j]

----------------------------------------------------------------------------
\* C1: a /track request for a utm_id of the hit index, made with the session
\* of a user who owns a link with that utm_id, is answered with the pixel
\* (200) and leaves every hit list as it was.
C1_SelfViewRecordsNothing ==
    [][resp'.route = "track" =>
        LET c == resp'.client
            k == resp'.utm
        IN  (/\ k \in DOMAIN linkHits
             /\ HasSession(c)
             /\ k \in DOMAIN users[SessionUid(c)]
             /\ \E in \in TrackInputs :
                    track(c, <<k>>, in.addr, in.ua, in.xff, in.t))
            => (resp'.status = 200 /\ linkHits' = linkHits /\ users' = users)]_vars

C1_Witness ==
    /\ resp.route = "track" /\ resp.status = 200 /\ resp.outcome = "self_view"
    /\ HasSession(resp.client)
    /\ resp.utm \in DOMAIN users[SessionUid(resp.client)]
    /\ resp.utm \in DOMAIN linkHits

\* C2: a /track request with a User-Agent header for a utm_id of the hit
\* index, made without a session, with an invalid session, or with the
\* session of a user who does not own the utm_id (a user with no links
\* included), appends exactly one HitEvent under that utm_id, changes no
\* other hit list, and is answered with the pixel (200).
C2_NonOwnerHitRecorded ==
    [][\A c \in Clients, k \in UtmIds, in \in TrackInputs :
          (/\ resp'.route = "track"
           /\ in.ua # NoHeader
           /\ k \in DOMAIN linkHits
           /\ ~(HasSession(c) /\ k \in DOMAIN users[SessionUid(c)])
           /\ track(c, <<k>>, in.addr, in.ua, in.xff, in.t))
          => (resp'.status = 200 /\ OneHitAppended(k))]_vars

\* C3: a /track request without utm_id, with an empty utm_id, or with a
\* utm_id that is no key of the hit index (the empty index included) is
\* answered 400 and changes nothing in the store.
C3_InvalidUtmRejected400 ==
    [][\A c \in Clients, arg \in TrackArgs, in \in TrackInputs :
          (/\ resp'.route = "track"
           /\ (arg = <<>> \/ arg[1] \notin DOMAIN linkHits)
           /\ track(c, arg, in.addr, in.ua, in.xff, in.t))
          => (resp'.status = 400 /\ linkHits' = linkHits /\ users' = users)]_vars

\* C4: for links with distinct generated_on values, whatever order the store
\* returns them in, the overview lists the years in strictly descending
\* order, the months of each year in strictly descending order, and the
\* links of each month in strictly descending generated_on order.
C4_OverviewDescending ==
    (/\ resp.route = "tracklist"
     /\ resp.status = 200
     /\ DistinctGeneratedOn(users[SessionUid(resp.client)]))
    => (/\ YearsDescending(resp.body)
        /\ MonthsDescending(resp.body)
        /\ ItemsDescending(resp.body))

\* C5: the overview /tracklist builds for a user with links holds every link
\* of the user exactly once, with a hit count equal to the number of
\* HitEvents stored under its utm_id, and 0 when the hit index has no entry
\* for it; a missing entry never makes the request fail.
C5_EveryLinkCounted ==
    [][\A c \in Clients :
          (/\ resp'.route = "tracklist"
           /\ HasSession(c)
           /\ Exists(users[SessionUid(c)])
           /\ tracklist(c))
          => (/\ resp'.status = 200
              /\ \A k \in DOMAIN users[SessionUid(c)] :
                    /\ Cardinality(PlacesOf(resp'.body, k)) = 1
                    /\ \A p \in PlacesOf(resp'.body, k) :
                          resp'.body[p[1]][2][p[2]][2][p[3]][2].Hits =
                              <<IF k \in DOMAIN linkHits
                                THEN Len(linkHits[k]) ELSE 0>>)]_vars

ServiceFailures == IdpOutcomes \ {"ok", "bad_credentials"}

\* C7: a sign-in (valid form, no cookie sent) that meets a failure of the
\* identity service is answered 503 and never as invalid credentials; the
\* invalid-credentials answer is given only when the service rejected the
\* credentials; neither answer sets a session cookie.
C7_ServiceFailureIs503 ==
    [][\A c \in Clients, idp \in IdpOutcomes \ {"ok"} :
          (/\ resp'.route = "login"
           /\ login(c, NoCookie, TRUE, idp, 1))
          => (/\ cookie' = cookie
              /\ idp \in ServiceFailures =>
                    (resp'.status = 503 /\ resp'.outcome # "invalid_credentials")
              /\ resp'.outcome = "invalid_credentials" => idp = "bad_credentials")]_vars

\* C8: a logout with a session cookie of user u revokes every session cookie
\* issued to u so far, clears the client's cookie and leaves the client
\* without a session; a revocation is never undone; /login answers a revoked
\* cookie with 401, and an unrevoked one with the redirect of a user already
\* logged in, issuing no cookie and revoking nothing.
C8_LogoutRevokesAllSessions ==
    [][/\ \A u \in Users : validSince'[u] >= validSince[u]
       /\ resp'.route = "logout" =>
            \A sent \in Sent(resp'.client) :
                (sent.kind = "session" /\ logout(resp'.client, sent))
                => (/\ \A e \in 0..validSince[sent.uid] :
                          Revoked(SessionCookie(sent.uid, e), validSince')
                    /\ cookie'[resp'.client] = NoCookie
                    /\ ~ValidSession(cookie'[resp'.client], validSince'))
       /\ resp'.route = "login" =>
            \A sent \in Sent(resp'.client) :
                (/\ sent.kind = "session"
                 /\ \E in \in LoginInputs :
                        login(resp'.client, sent, in.formValid, in.idp, in.u))
                => (/\ cookie' = cookie
                    /\ validSince' = validSince
                    /\ IF Revoked(sent, validSince)
                       THEN resp'.status = 401
                       ELSE resp'.status = 303
                              /\ resp'.outcome = "already_logged_in")]_vars

\* A client presents at /login a cookie issued before another client logged
\* the same user out, and is answered 401.
C8_Witness ==
    /\ resp.route = "login" /\ resp.status = 401
    /\ cookie[resp.client].kind = "session"
    /\ Revoked(cookie[resp.client], validSince)
    /\ \E c \in Clients \ {resp.client} :
          loggedOut[c] = cookie[resp.client].uid

\* C9: in every step every hit list of the index stays in the index and keeps
\* the HitEvents it had, unchanged and in place: hits are only appended, and
\* the placeholder of a link generation overwrites no recorded hit.
C9_HitsAppendOnly ==
    [][\A k \in DOMAIN linkHits :
          k \in DOMAIN linkHits' /\ IsPrefix(linkHits[k], linkHits'[k])]_vars

\* A link generation completed while another utm_id had recorded hits.
C9_Witness ==
    /\ resp.route = "index" /\ resp.outcome = "generated"
    /\ resp.utm \in DOMAIN linkHits
    /\ \E k \in DOMAIN linkHits \ {resp.utm} : Len(linkHits[k]) >= 1

\* The utm ids with a link in some user's namespace.
LinkedIds == UNION {DOMAIN users[u] : u \in Users}

====
